---------------------------- MODULE Spec2Model ----------------------------
(***************************************************************************)
(* Trigger-decision engine of sfizz: sfz::Layer (src/sfizz/Layer.cpp) and  *)
(* the controller memory sfz::MidiState it reads.                          *)
(*                                                                         *)
(* Normalized floats are modelled on a grid: the integer k stands for the  *)
(* value k / One, so One is 1.0, 0 is 0.0 and -One is -1.0.                *)
(***************************************************************************)
EXTENDS Integers, Sequences, FiniteSets

\* ------------------------------------------------------------------ bounds
One == 2
NumNotes == 2
NumCCs == 3
MaxCycles == 2
MaxActive == 2
MaxUnderflow == 0

Notes == 0..(NumNotes - 1)
CCs == 0..(NumCCs - 1)
\* controller numbers a caller may pass: one below and one above the table
CCInputs == -1..NumCCs
Norm == 0..One
Bends == {-One, 0, One}
\* secondsPerQuarter in quarter seconds: 0.25 s, 0.5 s, 1 s
TempoInputs == {1, 2, 4}
\* launch-random draws: 0.0, a value inside (0, 1) and the boundary value 1.0
RandInputs == {0, 1, One}

\* ------------------------------------------------------------------- state
VARIABLES
    region,
    keySwitched, previousKeySwitched, sequenceSwitched,
    pitchSwitched, bpmSwitched, aftertouchSwitched, ccSwitched,
    sequenceCounter, sustainPressed, sostenutoPressed,
    delayedSustainReleases, delayedSostenutoReleases,
    lastNoteVelocities, notePressed, polyAftertouch, activeNotes,
    velocityOverride, cc, pitchBend,
    faulted, walkCalls, group, last

gateVars == <<keySwitched, previousKeySwitched, sequenceSwitched,
              pitchSwitched, bpmSwitched, aftertouchSwitched, ccSwitched>>
seqVars == <<sequenceCounter, walkCalls, group>>
pedalVars == <<sustainPressed, sostenutoPressed,
               delayedSustainReleases, delayedSostenutoReleases>>
layerVars == <<gateVars, seqVars, pedalVars, faulted>>
midiVars == <<lastNoteVelocities, notePressed, polyAftertouch, activeNotes,
              velocityOverride, cc, pitchBend>>
vars == <<region, layerVars, midiVars, last>>

\* ------------------------------------------------------------------ ranges
Range(lo, hi) == [lo |-> lo, hi |-> hi]

Contains(r, x) == r.lo <= x /\ x < r.hi

ContainsWithEnd(r, x) == r.lo <= x /\ x <= r.hi

IsValid(r) == r.lo <= r.hi

FullNorm == Range(0, One)

\* ----------------------------------------------------- layer configuration
SustainCC == 1
SostenutoCC == 2

DefaultRegion ==
    [ keyRange |-> Range(0, NumNotes - 1),
      velocityRange |-> FullNorm,
      randRange |-> FullNorm,
      polyAftertouchRange |-> FullNorm,
      bendRange |-> Range(-One, One),
      aftertouchRange |-> FullNorm,
      bpmRange |-> Range(0, 500),
      ccConditions |-> [c \in {} |-> FullNorm],
      ccTriggers |-> [c \in {} |-> FullNorm],
      sequenceLength |-> 1,
      sequencePosition |-> 1,
      trigger |-> "attack",
      sustainCC |-> SustainCC,
      sostenutoCC |-> SostenutoCC,
      sustainThreshold |-> One \div 2,
      sostenutoThreshold |-> One \div 2,
      checkSustain |-> TRUE,
      checkSostenuto |-> TRUE,
      velocityOverride |-> "current",
      triggerOnNote |-> TRUE,
      triggerOnCC |-> FALSE,
      usesKeySwitches |-> FALSE,
      usesPreviousKeySwitches |-> FALSE,
      usesSequenceSwitches |-> FALSE ]

\* CCMap::getWithDefault: the configured range, else the default (full) range
GetWithDefault(m, c) == IF c \in DOMAIN m THEN m[c] ELSE FullNorm

\* ------------------------------------------------------- controller memory
MidiInit ==
    /\ lastNoteVelocities = [n \in Notes |-> 0]
    /\ notePressed = [n \in Notes |-> FALSE]
    /\ polyAftertouch = [n \in Notes |-> 0]
    /\ activeNotes = 0
    /\ velocityOverride = 0
    /\ cc = [c \in CCs |-> 0]
    /\ pitchBend = 0

\* the most recent call: the operation, its note or controller number, its result
Called(op, arg, ret) == [op |-> op, arg |-> arg, ret |-> ret]

\* mutant: the override takes the velocity the note had before this note-on
NoteOnEventOldVelocity(noteNumber, velocity) ==
    /\ ~faulted
    /\ activeNotes < MaxActive
    /\ lastNoteVelocities' = [lastNoteVelocities EXCEPT ![noteNumber] = velocity]
    /\ notePressed' = [notePressed EXCEPT ![noteNumber] = TRUE]
    /\ activeNotes' = activeNotes + 1
    /\ velocityOverride' = lastNoteVelocities[noteNumber]
    /\ last' = Called("noteOnEvent", noteNumber, FALSE)
    /\ UNCHANGED <<region, layerVars, polyAftertouch, cc, pitchBend>>

NoteOnEvent(noteNumber, velocity) ==
    /\ ~faulted
    /\ activeNotes < MaxActive
    /\ lastNoteVelocities' = [lastNoteVelocities EXCEPT ![noteNumber] = velocity]
    /\ notePressed' = [notePressed EXCEPT ![noteNumber] = TRUE]
    /\ activeNotes' = activeNotes + 1
    /\ velocityOverride' = velocity
    /\ last' = Called("noteOnEvent", noteNumber, FALSE)
    /\ UNCHANGED <<region, layerVars, polyAftertouch, cc, pitchBend>>

NoteOffEvent(noteNumber, velocity) ==
    /\ ~faulted
    /\ activeNotes > -MaxUnderflow
    /\ notePressed' = [notePressed EXCEPT ![noteNumber] = FALSE]
    /\ activeNotes' = activeNotes - 1
    /\ last' = Called("noteOffEvent", noteNumber, FALSE)
    /\ UNCHANGED <<region, layerVars, lastNoteVelocities, polyAftertouch,
                   velocityOverride, cc, pitchBend>>

\* mutant: a number outside the table is stored in the last slot of the table
CcEventClamping(ccNumber, ccValue) ==
    /\ ~faulted
    /\ cc' = IF ccNumber \in CCs THEN [cc EXCEPT ![ccNumber] = ccValue]
             ELSE [cc EXCEPT ![NumCCs - 1] = ccValue]
    /\ last' = Called("ccEvent", ccNumber, FALSE)
    /\ UNCHANGED <<region, layerVars, lastNoteVelocities, notePressed,
                   polyAftertouch, activeNotes, velocityOverride, pitchBend>>

CcEvent(ccNumber, ccValue) ==
    /\ ~faulted
    /\ cc' = IF ccNumber \in CCs THEN [cc EXCEPT ![ccNumber] = ccValue] ELSE cc
    /\ last' = Called("ccEvent", ccNumber, FALSE)
    /\ UNCHANGED <<region, layerVars, lastNoteVelocities, notePressed,
                   polyAftertouch, activeNotes, velocityOverride, pitchBend>>

PitchBendEvent(pitchBendValue) ==
    /\ ~faulted
    /\ pitchBend' = pitchBendValue
    /\ last' = Called("pitchBendEvent", 0, FALSE)
    /\ UNCHANGED <<region, layerVars, lastNoteVelocities, notePressed,
                   polyAftertouch, activeNotes, velocityOverride, cc>>

\* mutant: resetAllControllers() releases the notes as well
ResetAllControllersReleasingNotes ==
    /\ ~faulted
    /\ cc' = [c \in CCs |-> 0]
    /\ pitchBend' = 0
    /\ notePressed' = [n \in Notes |-> FALSE]
    /\ activeNotes' = 0
    /\ last' = Called("resetAllControllers", 0, FALSE)
    /\ UNCHANGED <<region, layerVars, lastNoteVelocities,
                   polyAftertouch, velocityOverride>>

ResetAllControllers ==
    /\ ~faulted
    /\ cc' = [c \in CCs |-> 0]
    /\ pitchBend' = 0
    /\ last' = Called("resetAllControllers", 0, FALSE)
    /\ UNCHANGED <<region, layerVars, lastNoteVelocities, notePressed,
                   polyAftertouch, activeNotes, velocityOverride>>

\* mutant: reset() forgets the note velocities
ResetKeepingVelocities ==
    /\ ~faulted
    /\ notePressed' = [n \in Notes |-> FALSE]
    /\ polyAftertouch' = [n \in Notes |-> 0]
    /\ activeNotes' = 0
    /\ velocityOverride' = 0
    /\ cc' = [c \in CCs |-> 0]
    /\ pitchBend' = 0
    /\ last' = Called("reset", 0, FALSE)
    /\ UNCHANGED <<region, layerVars, lastNoteVelocities>>

Reset ==
    /\ ~faulted
    /\ lastNoteVelocities' = [n \in Notes |-> 0]
    /\ notePressed' = [n \in Notes |-> FALSE]
    /\ polyAftertouch' = [n \in Notes |-> 0]
    /\ activeNotes' = 0
    /\ velocityOverride' = 0
    /\ cc' = [c \in CCs |-> 0]
    /\ pitchBend' = 0
    /\ last' = Called("reset", 0, FALSE)
    /\ UNCHANGED <<region, layerVars>>

\* -------------------------------------------------------------------- layer
otherGates == <<keySwitched, previousKeySwitched, pitchSwitched, bpmSwitched,
                aftertouchSwitched, ccSwitched>>

InitializeActivations ==
    /\ keySwitched = ~region.usesKeySwitches
    /\ previousKeySwitched = ~region.usesPreviousKeySwitches
    /\ sequenceSwitched = ~region.usesSequenceSwitches
    /\ pitchSwitched = TRUE
    /\ bpmSwitched = TRUE
    /\ aftertouchSwitched = TRUE
    /\ ccSwitched = [c \in CCs |-> TRUE]

LayerInit ==
    /\ InitializeActivations
    /\ sequenceCounter = 0
    /\ walkCalls = 0
    /\ sustainPressed = FALSE
    /\ sostenutoPressed = FALSE
    /\ delayedSustainReleases = << >>
    /\ delayedSostenutoReleases = << >>
    /\ faulted = FALSE
    /\ last = Called("Layer", 0, FALSE)

\* mutant: the pitch gate is left out of the conjunction
IsSwitchedOnWithoutPitch ==
    /\ keySwitched
    /\ previousKeySwitched
    /\ sequenceSwitched
    /\ bpmSwitched
    /\ aftertouchSwitched
    /\ \A c \in CCs : ccSwitched[c]

IsSwitchedOn ==
    /\ keySwitched
    /\ previousKeySwitched
    /\ sequenceSwitched
    /\ pitchSwitched
    /\ bpmSwitched
    /\ aftertouchSwitched
    /\ \A c \in CCs : ccSwitched[c]

\* mutant: the counter is incremented before it is read
SequenceGatePreIncrement(counter) ==
    ((counter + 1) % region.sequenceLength) = region.sequencePosition - 1

\* the value walkSequence() stores in the gate, from the counter it reads
SequenceGate(counter) ==
    (counter % region.sequenceLength) = region.sequencePosition - 1

\* mutant: the target position is compared as if it were counted from 0
SequenceGateAtZeroBased(counter, position) ==
    (counter % region.sequenceLength) = position % region.sequenceLength

\* the same test in a layer of the round-robin group whose target is `position`
SequenceGateAt(counter, position) ==
    (counter % region.sequenceLength) = position - 1

\* group[p] is the sequence state of the layer with target position p among
\* the layers of one round-robin group: sequenceLength layers on the same key,
\* configured alike but for their position.  The caller forwards every event
\* to each of them and nothing a handler tests before walkSequence() reads the
\* position, so each of them calls walkSequence() when this layer does.
GroupInit ==
    group = [p \in 1..region.sequenceLength |->
                [sequenceCounter |-> 0,
                 sequenceSwitched |-> ~region.usesSequenceSwitches]]

WalkGroup ==
    group' = [p \in DOMAIN group |->
                 [sequenceCounter |-> group[p].sequenceCounter + 1,
                  sequenceSwitched |-> SequenceGateAt(group[p].sequenceCounter, p)]]

\* walkCalls numbers the calls of walkSequence() (the first call is call 1)
WalkSequence ==
    /\ sequenceCounter < MaxCycles * region.sequenceLength
    /\ sequenceSwitched' = SequenceGate(sequenceCounter)
    /\ sequenceCounter' = sequenceCounter + 1
    /\ walkCalls' = walkCalls + 1
    /\ WalkGroup

CheckRandom(randValue) ==
    \/ Contains(region.randRange, randValue)
    \/ (randValue >= One /\ IsValid(region.randRange) /\ region.randRange.hi >= One)

CheckNote(noteNumber, velocity) ==
    /\ ContainsWithEnd(region.keyRange, noteNumber)
    /\ ContainsWithEnd(region.velocityRange, velocity)

\* the velocity the note handlers test, after the velocity-override substitution
EffectiveVelocity(velocity) ==
    IF region.velocityOverride = "previous" THEN velocityOverride ELSE velocity

\* mutant: the launch-random draw is not tested
PrerequisitesWithoutRandom(noteNumber, velocity, randValue) ==
    /\ region.triggerOnNote
    /\ CheckNote(noteNumber, EffectiveVelocity(velocity))
    /\ ContainsWithEnd(region.polyAftertouchRange, polyAftertouch[noteNumber])

\* the checks registerNoteOn and registerNoteOff share before their trigger logic
Prerequisites(noteNumber, velocity, randValue) ==
    /\ region.triggerOnNote
    /\ CheckNote(noteNumber, EffectiveVelocity(velocity))
    /\ CheckRandom(randValue)
    /\ ContainsWithEnd(region.polyAftertouchRange, polyAftertouch[noteNumber])

\* mutant: the count is read as if the note being played were not in it yet
NoteOnTriggerBeforeCount ==
    \/ (region.trigger = "first" /\ activeNotes = 0)
    \/ region.trigger = "attack"
    \/ (region.trigger = "legato" /\ activeNotes > 0)

NoteOnTrigger ==
    \/ (region.trigger = "first" /\ activeNotes = 1)
    \/ region.trigger = "attack"
    \/ (region.trigger = "legato" /\ activeNotes > 1)

RegisterNoteOn(noteNumber, velocity, randValue) ==
    /\ ~faulted
    /\ IF Prerequisites(noteNumber, velocity, randValue) /\ NoteOnTrigger
       THEN /\ WalkSequence
            /\ UNCHANGED <<otherGates, pedalVars, faulted>>
            /\ last' = Called("registerNoteOn", noteNumber, IsSwitchedOn')
       ELSE /\ UNCHANGED layerVars
            /\ last' = Called("registerNoteOn", noteNumber, FALSE)
    /\ UNCHANGED <<region, midiVars>>

IsNoteSustained(noteNumber) ==
    \E i \in 1..Len(delayedSustainReleases) : delayedSustainReleases[i][1] = noteNumber

IsNoteSostenutoed(noteNumber) ==
    \E i \in 1..Len(delayedSostenutoReleases) : delayedSostenutoReleases[i][1] = noteNumber

QueueCapacity == NumNotes

\* mutant: the insertion does not look at the capacity
DelaySustainReleaseUnbounded(queue, noteNumber, velocity) ==
    Append(queue, <<noteNumber, velocity>>)

DelaySustainRelease(queue, noteNumber, velocity) ==
    IF Len(queue) = QueueCapacity THEN queue ELSE Append(queue, <<noteNumber, velocity>>)

DelaySostenutoRelease(queue, noteNumber, velocity) ==
    IF Len(queue) = QueueCapacity THEN queue ELSE Append(queue, <<noteNumber, velocity>>)

\* swapAndPopFirst: the first matching element is overwritten by the last one
\* and the container shrinks by one
SwapAndPopFirst(queue, noteNumber) ==
    LET hits == {i \in 1..Len(queue) : queue[i][1] = noteNumber}
    IN IF hits = {} THEN queue
       ELSE LET first == CHOOSE i \in hits : \A j \in hits : i <= j
            IN [i \in 1..(Len(queue) - 1) |->
                    IF i = first THEN queue[Len(queue)] ELSE queue[i]]

RemoveFromSostenutoReleases(queue, noteNumber) == SwapAndPopFirst(queue, noteNumber)

\* mutant: the release logic never looks at the sustain pedal
SustainAfterNoteOffIgnoringPedal(noteNumber) == delayedSustainReleases

\* the sustain queue after the release logic of registerNoteOff
SustainAfterNoteOff(noteNumber) ==
    LET sostenutoed == IsNoteSostenutoed(noteNumber)
        velocity == lastNoteVelocities[noteNumber]
        afterFirst ==
            IF sostenutoed /\ ~sostenutoPressed /\ sustainPressed
            THEN DelaySustainRelease(delayedSustainReleases, noteNumber, velocity)
            ELSE delayedSustainReleases
    IN IF (~sostenutoPressed \/ ~sostenutoed) /\ sustainPressed
       THEN DelaySustainRelease(afterFirst, noteNumber, velocity)
       ELSE afterFirst

SostenutoAfterNoteOff(noteNumber) ==
    IF IsNoteSostenutoed(noteNumber) /\ ~sostenutoPressed
    THEN RemoveFromSostenutoReleases(delayedSostenutoReleases, noteNumber)
    ELSE delayedSostenutoReleases

\* mutant: the second test reads "sostenuto pressed or not sostenutoed"
ReleaseTriggerOkPressed(noteNumber) ==
    \/ region.trigger = "release_key"
    \/ /\ region.trigger = "release"
       /\ (sostenutoPressed \/ ~IsNoteSostenutoed(noteNumber))
       /\ ~sustainPressed

\* mutant: the release fires under a pressed sustain pedal too
ReleaseTriggerOkUnderSustain(noteNumber) ==
    \/ region.trigger = "release_key"
    \/ /\ region.trigger = "release"
       /\ (~sostenutoPressed \/ ~IsNoteSostenutoed(noteNumber))

\* triggerOk at the end of the release logic of registerNoteOff
ReleaseTriggerOk(noteNumber) ==
    \/ region.trigger = "release_key"
    \/ /\ region.trigger = "release"
       /\ (~sostenutoPressed \/ ~IsNoteSostenutoed(noteNumber))
       /\ ~sustainPressed

RegisterNoteOff(noteNumber, velocity, randValue) ==
    /\ ~faulted
    /\ IF ~Prerequisites(noteNumber, velocity, randValue)
       THEN /\ UNCHANGED layerVars
            /\ last' = Called("registerNoteOff", noteNumber, FALSE)
       ELSE /\ IF region.trigger = "release"
               THEN /\ delayedSustainReleases' = SustainAfterNoteOff(noteNumber)
                    /\ delayedSostenutoReleases' = SostenutoAfterNoteOff(noteNumber)
               ELSE UNCHANGED <<delayedSustainReleases, delayedSostenutoReleases>>
            /\ UNCHANGED <<sustainPressed, sostenutoPressed, otherGates, faulted>>
            /\ IF ReleaseTriggerOk(noteNumber)
               THEN /\ WalkSequence
                    /\ last' = Called("registerNoteOff", noteNumber, IsSwitchedOn')
               ELSE /\ UNCHANGED <<sequenceSwitched, seqVars>>
                    /\ last' = Called("registerNoteOff", noteNumber, FALSE)
    /\ UNCHANGED <<region, midiVars>>

RECURSIVE StoreFrom(_, _)
StoreFrom(queue, note) ==
    IF note > region.keyRange.hi THEN queue
    ELSE StoreFrom(IF notePressed[note]
                   THEN DelaySostenutoRelease(queue, note, lastNoteVelocities[note])
                   ELSE queue,
                   note + 1)

\* mutant: the capture walks the keyboard from note 0, not from the key range
StoreSostenutoNotesFromZero == StoreFrom(delayedSostenutoReleases, 0)

StoreSostenutoNotes == StoreFrom(delayedSostenutoReleases, region.keyRange.lo)

SustainState(ccValue) == region.checkSustain /\ ccValue >= region.sustainThreshold

SostenutoState(ccValue) == region.checkSostenuto /\ ccValue >= region.sostenutoThreshold

\* mutant: releasing the sostenuto pedal keeps its queue
SostenutoAfterCCKeeping(ccNumber, ccValue) ==
    IF ccNumber = region.sostenutoCC /\ ~sostenutoPressed /\ SostenutoState(ccValue)
    THEN StoreSostenutoNotes ELSE delayedSostenutoReleases

\* the sostenuto queue after registerCC's pedal block
SostenutoAfterCC(ccNumber, ccValue) ==
    IF ccNumber # region.sostenutoCC THEN delayedSostenutoReleases
    ELSE LET newState == SostenutoState(ccValue)
             stored == IF ~sostenutoPressed /\ newState
                       THEN StoreSostenutoNotes ELSE delayedSostenutoReleases
         IN IF ~newState /\ sostenutoPressed THEN << >> ELSE stored

\* mutant: releasing the sustain pedal clears its queue, as sostenuto does
SustainAfterCCClearing(ccNumber, ccValue) ==
    IF ccNumber = region.sustainCC /\ ~SustainState(ccValue) /\ sustainPressed
    THEN << >> ELSE delayedSustainReleases

\* registerCC never touches the sustain queue, whatever the pedal does
SustainAfterCC(ccNumber, ccValue) == delayedSustainReleases

\* mutant: the trigger range is consulted on a layer controllers cannot trigger
CcTriggeredIgnoringEligibility(ccNumber, ccValue) ==
    /\ ccNumber \in DOMAIN region.ccTriggers
    /\ ContainsWithEnd(region.ccTriggers[ccNumber], ccValue)

CcTriggered(ccNumber, ccValue) ==
    /\ region.triggerOnCC
    /\ ccNumber \in DOMAIN region.ccTriggers
    /\ ContainsWithEnd(region.ccTriggers[ccNumber], ccValue)

\* registerCC(ccNumber, ccValue, randValue); randValue is not read.  The gate
\* bitset has NumCCs bits: set() with a position outside it throws, and the
\* function is noexcept, so the process is terminated there (faulted).
RegisterCC(ccNumber, ccValue) ==
    /\ ~faulted
    /\ sustainPressed' = IF ccNumber = region.sustainCC
                         THEN SustainState(ccValue) ELSE sustainPressed
    /\ sostenutoPressed' = IF ccNumber = region.sostenutoCC
                           THEN SostenutoState(ccValue) ELSE sostenutoPressed
    /\ delayedSostenutoReleases' = SostenutoAfterCC(ccNumber, ccValue)
    /\ delayedSustainReleases' = SustainAfterCC(ccNumber, ccValue)
    /\ UNCHANGED <<keySwitched, previousKeySwitched,
                   pitchSwitched, bpmSwitched, aftertouchSwitched>>
    /\ IF ccNumber \notin CCs
       THEN /\ faulted' = TRUE
            /\ UNCHANGED <<ccSwitched, sequenceSwitched, seqVars>>
            /\ last' = Called("registerCC", ccNumber, FALSE)
       ELSE /\ faulted' = FALSE
            /\ ccSwitched' = [ccSwitched EXCEPT ![ccNumber] =
                    ContainsWithEnd(GetWithDefault(region.ccConditions, ccNumber), ccValue)]
            /\ IF CcTriggered(ccNumber, ccValue)
               THEN /\ WalkSequence
                    /\ last' = Called("registerCC", ccNumber, IsSwitchedOn')
               ELSE /\ UNCHANGED <<sequenceSwitched, seqVars>>
                    /\ last' = Called("registerCC", ccNumber, FALSE)
    /\ UNCHANGED <<region, midiVars>>

RegisterPitchWheel(pitch) ==
    /\ ~faulted
    /\ pitchSwitched' = ContainsWithEnd(region.bendRange, pitch)
    /\ last' = Called("registerPitchWheel", 0, FALSE)
    /\ UNCHANGED <<region, midiVars, keySwitched, previousKeySwitched, sequenceSwitched,
                   bpmSwitched, aftertouchSwitched, ccSwitched, seqVars, pedalVars, faulted>>

RegisterAftertouch(aftertouch) ==
    /\ ~faulted
    /\ aftertouchSwitched' = ContainsWithEnd(region.aftertouchRange, aftertouch)
    /\ last' = Called("registerAftertouch", 0, FALSE)
    /\ UNCHANGED <<region, midiVars, keySwitched, previousKeySwitched, sequenceSwitched,
                   pitchSwitched, bpmSwitched, ccSwitched, seqVars, pedalVars, faulted>>

\* bpm = 60 / secondsPerQuarter, with secondsPerQuarter given in quarter seconds
Bpm(quarterSeconds) == (60 * 4) \div quarterSeconds

RegisterTempo(secondsPerQuarter) ==
    /\ ~faulted
    /\ bpmSwitched' = ContainsWithEnd(region.bpmRange, Bpm(secondsPerQuarter))
    /\ last' = Called("registerTempo", 0, FALSE)
    /\ UNCHANGED <<region, midiVars, keySwitched, previousKeySwitched, sequenceSwitched,
                   pitchSwitched, aftertouchSwitched, ccSwitched, seqVars, pedalVars, faulted>>

\* ----------------------------------------------------------- configurations
MaxSequenceLength == 3

\* round robin: every length and every position inside it, on layers that fire
\* on note-on or on note-off, and on controller 0 at full value
SequenceRegions ==
    { [DefaultRegion EXCEPT !.usesSequenceSwitches = TRUE,
                            !.sequenceLength = len, !.sequencePosition = pos,
                            !.trigger = trig,
                            !.triggerOnCC = TRUE,
                            !.ccTriggers = [c \in {0} |-> Range(One, One)],
                            !.checkSustain = FALSE, !.checkSostenuto = FALSE]
      : len \in 1..MaxSequenceLength,
        pos \in 1..MaxSequenceLength,
        trig \in {"attack", "release_key"} }

\* every gate category and every prerequisite has a range that some inputs
\* miss; the second layer asks for a poly aftertouch no note has
GateRegions ==
    { [DefaultRegion EXCEPT !.bendRange = Range(0, One),
                            !.aftertouchRange = Range(1, One),
                            !.bpmRange = Range(100, 200),
                            !.ccConditions = [c \in {0} |-> Range(1, One)],
                            !.keyRange = Range(0, 0),
                            !.velocityRange = Range(1, One),
                            !.randRange = Range(0, 1),
                            !.checkSustain = FALSE, !.checkSostenuto = FALSE],
      [DefaultRegion EXCEPT !.polyAftertouchRange = Range(1, One),
                            !.checkSustain = FALSE, !.checkSostenuto = FALSE] }

\* a layer that only controllers trigger, with a sustain pedal, and a layer
\* with the same ranges and both pedals that controllers cannot trigger
ControllerRegions ==
    { [DefaultRegion EXCEPT !.triggerOnNote = FALSE, !.triggerOnCC = TRUE,
                            !.ccTriggers = [c \in {0} |-> Range(1, One)],
                            !.ccConditions = [c \in {0} |-> Range(0, 1)],
                            !.checkSostenuto = FALSE],
      [DefaultRegion EXCEPT !.triggerOnNote = FALSE, !.triggerOnCC = FALSE,
                            !.ccTriggers = [c \in {0} |-> Range(1, One)],
                            !.ccConditions = [c \in {0} |-> Range(0, 1)]] }

\* the remaining trigger modes, on a controller memory that no event reaches
ModeRegions ==
    { [DefaultRegion EXCEPT !.trigger = trig, !.checkSostenuto = FALSE]
      : trig \in {"first", "legato", "release"} }

\* layers whose decisions are followed on the calls of the layer alone, the
\* controller memory staying as constructed
Regions == {r \in SequenceRegions : r.sequencePosition <= r.sequenceLength}
               \cup GateRegions \cup ControllerRegions \cup ModeRegions

\* legato groups and the velocity override, which read the controller memory,
\* next to a plain attack layer
LegatoRegions ==
    { [DefaultRegion EXCEPT !.trigger = "first", !.velocityOverride = "previous",
                            !.velocityRange = Range(1, One),
                            !.randRange = Range(0, 1),
                            !.checkSustain = FALSE, !.checkSostenuto = FALSE],
      [DefaultRegion EXCEPT !.trigger = "legato",
                            !.checkSustain = FALSE, !.checkSostenuto = FALSE],
      [DefaultRegion EXCEPT !.trigger = "attack",
                            !.checkSustain = FALSE, !.checkSostenuto = FALSE] }

\* pedal-aware release layers: the whole keyboard, or its upper part only
ReleaseRegions ==
    { [DefaultRegion EXCEPT !.trigger = "release",
                            !.keyRange = Range(lo, NumNotes - 1)]
      : lo \in {0, 1} }

\* ----------------------------------------------------------- specifications
Init ==
    /\ region \in Regions
    /\ MidiInit
    /\ LayerInit
    /\ GroupInit

\* the calls a caller makes on the layer
Next ==
    \/ \E n \in Notes, v \in Norm, r \in RandInputs : RegisterNoteOn(n, v, r)
    \/ \E n \in Notes, v \in Norm, r \in RandInputs : RegisterNoteOff(n, v, r)
    \/ \E c \in CCInputs, v \in Norm : RegisterCC(c, v)
    \/ \E v \in Bends : RegisterPitchWheel(v)
    \/ \E v \in Norm : RegisterAftertouch(v)
    \/ \E s \in TempoInputs : RegisterTempo(s)

Spec == Init /\ [][Next]_vars

\* the note events of the controller memory and the calls of the layer; the
\* calls that cannot act on these layers are delivered with one input each
LegatoInit ==
    /\ region \in LegatoRegions
    /\ MidiInit
    /\ LayerInit
    /\ GroupInit

LegatoNext ==
    \/ \E n \in Notes, v \in {1, One} : NoteOnEvent(n, v)
    \/ \E n \in Notes, v \in {0} : NoteOffEvent(n, v)
    \/ \E n \in Notes, v \in Norm, r \in RandInputs : RegisterNoteOn(n, v, r)
    \/ \E n \in Notes, v \in {0}, r \in {0} : RegisterNoteOff(n, v, r)
    \/ \E c \in {0}, v \in {One} : RegisterCC(c, v)
    \/ \E v \in {0} : RegisterPitchWheel(v)
    \/ \E v \in {One} : RegisterAftertouch(v)
    \/ \E s \in {2} : RegisterTempo(s)

LegatoSpec == LegatoInit /\ [][LegatoNext]_vars

PedalInit ==
    /\ region \in ReleaseRegions
    /\ MidiInit
    /\ LayerInit
    /\ GroupInit

\* the same events; the calls that cannot act on a release layer are delivered
\* with one input each
PedalNext ==
    \/ \E n \in Notes, v \in {One} : NoteOnEvent(n, v)
    \/ \E n \in Notes, v \in {0} : NoteOffEvent(n, v)
    \/ \E n \in Notes, v \in {One}, r \in {0} : RegisterNoteOn(n, v, r)
    \/ \E n \in Notes, v \in {0, One}, r \in RandInputs : RegisterNoteOff(n, v, r)
    \/ \E c \in CCInputs, v \in Norm : RegisterCC(c, v)
    \/ \E v \in {0} : RegisterPitchWheel(v)
    \/ \E v \in {One} : RegisterAftertouch(v)
    \/ \E s \in {2} : RegisterTempo(s)

PedalSpec == PedalInit /\ [][PedalNext]_vars

MidiInitOnly ==
    /\ region = DefaultRegion
    /\ MidiInit
    /\ LayerInit
    /\ GroupInit

\* the controller memory alone: two velocities, two controllers of the table
\* and the numbers just outside it
MidiNext ==
    \/ \E n \in Notes, v \in {1, One} : NoteOnEvent(n, v)
    \/ \E n \in Notes, v \in {0} : NoteOffEvent(n, v)
    \/ \E c \in {-1, 0, SustainCC, NumCCs}, v \in {0, One} : CcEvent(c, v)
    \/ \E v \in {-One, One} : PitchBendEvent(v)
    \/ ResetAllControllers
    \/ Reset

MidiSpec == MidiInitOnly /\ [][MidiNext]_vars

\* ------------------------------------------------------------------- claims
\* a step of one of the layer's register* operations
RegisterOps == {"registerNoteOn", "registerNoteOff", "registerCC",
                "registerPitchWheel", "registerAftertouch", "registerTempo"}

\* the queue `after` is the queue `before` with zero or more entries appended
Extends(after, before) ==
    /\ Len(after) >= Len(before)
    /\ \A i \in 1..Len(before) : after[i] = before[i]

\* the insertion of (noteNumber, last recorded velocity) into the sustain queue,
\* dropped when the queue is full
DeferredToSustain(noteNumber) ==
    LET entry == <<noteNumber, lastNoteVelocities[noteNumber]>>
    IN IF Len(delayedSustainReleases) = QueueCapacity
       THEN delayedSustainReleases' = delayedSustainReleases
       ELSE /\ Len(delayedSustainReleases') > Len(delayedSustainReleases)
            /\ Extends(delayedSustainReleases', delayedSustainReleases)
            /\ \A i \in (Len(delayedSustainReleases) + 1)..Len(delayedSustainReleases') :
                   delayedSustainReleases'[i] = entry

\* the call qualified: the sequence advanced and the gate state was returned
QualifiedNow ==
    /\ walkCalls' = walkCalls + 1
    /\ last'.ret = (/\ keySwitched' /\ previousKeySwitched' /\ sequenceSwitched'
                    /\ pitchSwitched' /\ bpmSwitched' /\ aftertouchSwitched'
                    /\ \A c \in CCs : ccSwitched'[c])

\* C1: with sequence length L and position P, 1 <= P <= L, the n-th call of
\* walkSequence on a fresh layer leaves the sequence gate true exactly when n is
\* one of P, P+L, P+2L, ... (calls are numbered from 1).
C1_RoundRobin ==
    (walkCalls >= 1 /\ 1 <= region.sequencePosition
                    /\ region.sequencePosition <= region.sequenceLength)
    => (sequenceSwitched <=>
            \E k \in 0..MaxCycles :
                walkCalls = region.sequencePosition + k * region.sequenceLength)

C1_Witness ==
    /\ region.usesSequenceSwitches
    /\ region.sequenceLength = 3
    /\ region.sequencePosition = 2
    /\ walkCalls = 5
    /\ sequenceSwitched
    /\ last.op \in {"registerNoteOn", "registerNoteOff", "registerCC"}

\* C2: on a pedal-aware release layer with sustain checking, the sustain flag is
\* the test "value >= threshold" of the last sustain controller value; while it
\* is set and the sostenuto flag is not, a registerNoteOff that passes the
\* prerequisites returns false and, unless the sustain queue is full, appends
\* (note, last recorded velocity of the note) to it.
C2_SustainDefers ==
    [][ /\ last'.op = "registerCC" =>
               \A v \in Norm :
                   RegisterCC(last'.arg, v) =>
                       sustainPressed' =
                           IF last'.arg = region.sustainCC
                           THEN (region.checkSustain /\ v >= region.sustainThreshold)
                           ELSE sustainPressed
        /\ last'.op # "registerCC" => sustainPressed' = sustainPressed
        /\ ( /\ last'.op = "registerNoteOff"
             /\ region.trigger = "release"
             /\ region.checkSustain
             /\ sustainPressed
             /\ ~sostenutoPressed )
           => \A v \in Norm, r \in RandInputs :
                  (Prerequisites(last'.arg, v, r) /\ RegisterNoteOff(last'.arg, v, r))
                  => /\ last'.ret = FALSE
                     /\ walkCalls' = walkCalls
                     /\ DeferredToSustain(last'.arg)
      ]_vars

C2_Witness ==
    /\ region.trigger = "release"
    /\ last = Called("registerNoteOff", 1, FALSE)
    /\ sustainPressed
    /\ ~sostenutoPressed
    /\ lastNoteVelocities[1] = One
    /\ delayedSustainReleases = << <<1, One>> >>

\* C3: a registerCC on the sustain controller below the threshold clears the
\* sustain flag and leaves the sustain queue as it was; no step of the engine
\* removes or rewrites an entry of the sustain queue.
C3_SustainQueueKept ==
    [][ /\ (last'.op = "registerCC" /\ last'.arg = region.sustainCC) =>
               \A v \in Norm :
                   (v < region.sustainThreshold /\ RegisterCC(region.sustainCC, v))
                   => /\ ~sustainPressed'
                      /\ delayedSustainReleases' = delayedSustainReleases
                      /\ walkCalls' = walkCalls
        /\ Extends(delayedSustainReleases', delayedSustainReleases)
      ]_vars

C3_Witness ==
    /\ last = Called("registerCC", SustainCC, FALSE)
    /\ ~sustainPressed
    /\ Len(delayedSustainReleases) = QueueCapacity
    /\ walkCalls = 0

\* C4 as stated: on a pedal-aware release layer, a registerNoteOff that passes
\* the prerequisites while the sostenuto pedal is pressed OR the note is not
\* in the sostenuto queue inserts the note into the sustain queue and returns
\* false if the sustain pedal is pressed, and qualifies otherwise.
C4_AsStated ==
    [][ ( /\ last'.op = "registerNoteOff"
          /\ region.trigger = "release"
          /\ (sostenutoPressed \/ ~IsNoteSostenutoed(last'.arg)) )
        => \A v \in Norm, r \in RandInputs :
               (Prerequisites(last'.arg, v, r) /\ RegisterNoteOff(last'.arg, v, r))
               => IF sustainPressed
                  THEN /\ DeferredToSustain(last'.arg)
                       /\ last'.ret = FALSE
                       /\ walkCalls' = walkCalls
                  ELSE QualifiedNow
      ]_vars

\* C4 amended: the condition is "the sostenuto pedal is NOT pressed or the note
\* is not in the sostenuto queue"; then the note is inserted into the sustain
\* queue (dropped if full) and the call returns false if the sustain pedal is
\* pressed, and the call qualifies otherwise.  When the sostenuto pedal is
\* pressed and the note is in the sostenuto queue the call returns false and
\* changes nothing: no insertion, no sequence advance.
C4_ReleaseLogic ==
    [][ (last'.op = "registerNoteOff" /\ region.trigger = "release")
        => \A v \in Norm, r \in RandInputs :
               (Prerequisites(last'.arg, v, r) /\ RegisterNoteOff(last'.arg, v, r))
               => IF ~sostenutoPressed \/ ~IsNoteSostenutoed(last'.arg)
                  THEN IF sustainPressed
                       THEN /\ DeferredToSustain(last'.arg)
                            /\ last'.ret = FALSE
                            /\ walkCalls' = walkCalls
                       ELSE /\ QualifiedNow
                            /\ delayedSustainReleases' = delayedSustainReleases
                  ELSE /\ last'.ret = FALSE
                       /\ UNCHANGED layerVars
      ]_vars

C4_Witness ==
    /\ region.trigger = "release"
    /\ region.keyRange.lo = 0
    /\ last = Called("registerNoteOff", 0, FALSE)
    /\ sostenutoPressed
    /\ IsNoteSostenutoed(0)
    /\ ~sustainPressed
    /\ delayedSustainReleases = << >>
    /\ walkCalls = 0

\* C5: when registerCC on the sostenuto controller moves the sostenuto flag from
\* false to true, the sostenuto queue afterwards holds exactly one entry
\* (note, last recorded velocity) for each pressed note inside the key range,
\* and nothing else.
C5_SostenutoCapture ==
    [][ ( /\ last'.op = "registerCC"
          /\ last'.arg = region.sostenutoCC
          /\ ~sostenutoPressed
          /\ sostenutoPressed' )
        => LET held == {n \in Notes : /\ notePressed[n]
                                          /\ region.keyRange.lo <= n
                                          /\ n <= region.keyRange.hi}
                   q == delayedSostenutoReleases'
               IN /\ Len(q) = Cardinality(held)
                  /\ {q[i] : i \in 1..Len(q)} = {<<n, lastNoteVelocities[n]>> : n \in held}
      ]_vars

C5_Witness ==
    /\ region.trigger = "release"
    /\ region.keyRange.lo = 1
    /\ last = Called("registerCC", SostenutoCC, FALSE)
    /\ sostenutoPressed
    /\ notePressed[0]
    /\ notePressed[1]
    /\ delayedSostenutoReleases = << <<1, One>> >>

\* C6: every register* call that advances the sequence returns the AND of all
\* gates as they are after the advance, and no call returns true otherwise;
\* each of the pitch, aftertouch, tempo and controller gates is written only by
\* an event of its own category, as "the value is inside the configured range".
C6_GatesStickyAnd ==
    [][ /\ walkCalls' # walkCalls => QualifiedNow
        /\ walkCalls' = walkCalls => last'.ret = FALSE
        /\ last'.op = "registerPitchWheel" =>
               \A v \in Bends :
                   RegisterPitchWheel(v) =>
                       pitchSwitched' = (region.bendRange.lo <= v /\ v <= region.bendRange.hi)
        /\ last'.op # "registerPitchWheel" => pitchSwitched' = pitchSwitched
        /\ last'.op = "registerAftertouch" =>
               \A v \in Norm :
                   RegisterAftertouch(v) =>
                       aftertouchSwitched' =
                           (region.aftertouchRange.lo <= v /\ v <= region.aftertouchRange.hi)
        /\ last'.op # "registerAftertouch" => aftertouchSwitched' = aftertouchSwitched
        /\ last'.op = "registerTempo" =>
               \A t \in TempoInputs :
                   RegisterTempo(t) =>
                       bpmSwitched' =
                           (region.bpmRange.lo * t <= 240 /\ 240 <= region.bpmRange.hi * t)
        /\ last'.op # "registerTempo" => bpmSwitched' = bpmSwitched
        /\ \A c \in CCs :
               (last'.op # "registerCC" \/ last'.arg # c) => ccSwitched'[c] = ccSwitched[c]
        /\ keySwitched' = keySwitched
        /\ previousKeySwitched' = previousKeySwitched
      ]_vars

C6_Witness ==
    /\ region.trigger = "attack"
    /\ ~region.triggerOnCC
    /\ last = Called("registerNoteOn", 0, FALSE)
    /\ walkCalls = 1
    /\ sequenceSwitched
    /\ ~pitchSwitched
    /\ bpmSwitched
    /\ aftertouchSwitched
    /\ \A c \in CCs : ccSwitched[c]

\* C7: in the controller memory, the active-note count equals the number of
\* notes whose pressed flag is set.
C7_ActiveNotesCount ==
    activeNotes = Cardinality({n \in Notes : notePressed[n]})

C9_OverrideIsPreviousNote ==
    [][ ( /\ last.op = "noteOnEvent"
          /\ last'.op = "noteOnEvent"
          /\ last'.arg # last.arg )
        => velocityOverride' = lastNoteVelocities[last.arg]
      ]_vars

\* C10: reset() brings pitch bend, every controller value, every note velocity,
\* every pressed flag and the active-note count back to zero; before a reset a
\* note's velocity is the one of the last note-on of that note.
C10_ResetAndLastWrite ==
    [][ /\ last'.op = "reset" =>
               /\ pitchBend' = 0
               /\ \A c \in CCs : cc'[c] = 0
               /\ \A n \in Notes : lastNoteVelocities'[n] = 0 /\ ~notePressed'[n]
               /\ activeNotes' = 0
        /\ last'.op = "noteOnEvent" =>
               \A v \in Norm :
                   NoteOnEvent(last'.arg, v) =>
                       /\ lastNoteVelocities'[last'.arg] = v
                       /\ \A m \in Notes \ {last'.arg} :
                              lastNoteVelocities'[m] = lastNoteVelocities[m]
        /\ last'.op \notin {"reset", "noteOnEvent"} =>
               lastNoteVelocities' = lastNoteVelocities
      ]_vars

C10_Witness ==
    /\ last = Called("reset", 0, FALSE)
    /\ \A n \in Notes : lastNoteVelocities[n] = 0 /\ ~notePressed[n]
    /\ \A c \in CCs : cc[c] = 0
    /\ pitchBend = 0
    /\ activeNotes = 0

\* C11: resetAllControllers() sets every stored controller value and the pitch
\* bend to 0 and leaves the note velocities, the pressed flags, the active-note
\* count and the velocity override as they were.
C11_ResetAllControllersFrame ==
    [][ last'.op = "resetAllControllers" =>
            /\ \A c \in CCs : cc'[c] = 0
            /\ pitchBend' = 0
            /\ lastNoteVelocities' = lastNoteVelocities
            /\ notePressed' = notePressed
            /\ activeNotes' = activeNotes
            /\ velocityOverride' = velocityOverride
      ]_vars

C11_Witness ==
    /\ last = Called("resetAllControllers", 0, FALSE)
    /\ notePressed[0]
    /\ lastNoteVelocities[0] = One
    /\ lastNoteVelocities[1] = 1
    /\ activeNotes = 1
    /\ velocityOverride = One
    /\ \A c \in CCs : cc[c] = 0
    /\ pitchBend = 0

\* C12: controllerChange with a number outside the table does not fault and
\* changes nothing: every stored controller value, the pitch bend and all note
\* state stay as they were; with a number inside the table the value is stored
\* there and nothing else changes.
C12_ControllerChange ==
    [][ last'.op = "ccEvent" =>
            /\ ~faulted'
            /\ pitchBend' = pitchBend
            /\ lastNoteVelocities' = lastNoteVelocities
            /\ notePressed' = notePressed
            /\ polyAftertouch' = polyAftertouch
            /\ activeNotes' = activeNotes
            /\ velocityOverride' = velocityOverride
            /\ \A c \in CCs : c # last'.arg => cc'[c] = cc[c]
            /\ last'.arg \in CCs =>
                   \A v \in Norm : CcEvent(last'.arg, v) => cc'[last'.arg] = v
      ]_vars

C12_Witness ==
    /\ last = Called("ccEvent", NumCCs, FALSE)
    /\ cc[0] = One
    /\ cc[NumCCs - 1] = 0
    /\ pitchBend = One
    /\ notePressed[0]
    /\ ~faulted

\* C13: registerCC with a controller number outside the gate table (negative,
\* or not below the size of the table) does not fault and is ignored: every
\* controller gate, the pedal flags, both queues and the sequence counter stay
\* as they were.
C13_OutOfTableIgnored ==
    [][ (last'.op = "registerCC" /\ last'.arg \notin CCs) =>
            /\ ~faulted'
            /\ ccSwitched' = ccSwitched
            /\ UNCHANGED pedalVars
            /\ sequenceCounter' = sequenceCounter
      ]_vars

\* C14: neither deferred queue ever holds more entries than the queue
\* capacity; a registerNoteOff that would insert into the full sustain queue
\* leaves the queue as it was, returns false, does not advance the sequence and
\* does not fault.
C14_QueuesBounded ==
    [][ /\ Len(delayedSustainReleases) <= QueueCapacity
        /\ Len(delayedSustainReleases') <= QueueCapacity
        /\ Len(delayedSostenutoReleases) <= QueueCapacity
        /\ Len(delayedSostenutoReleases') <= QueueCapacity
        /\ ( /\ last'.op = "registerNoteOff"
             /\ region.trigger = "release"
             /\ sustainPressed
             /\ Len(delayedSustainReleases) = QueueCapacity )
           => \A v \in Norm, r \in RandInputs :
                  (Prerequisites(last'.arg, v, r) /\ RegisterNoteOff(last'.arg, v, r))
                  => /\ delayedSustainReleases' = delayedSustainReleases
                     /\ last'.ret = FALSE
                     /\ walkCalls' = walkCalls
                     /\ ~faulted'
      ]_vars

C14_Witness ==
    /\ region.trigger = "release"
    /\ region.keyRange.lo = 0
    /\ last = Called("registerNoteOff", 0, FALSE)
    /\ sustainPressed
    /\ ~sostenutoPressed
    /\ Len(delayedSustainReleases) = QueueCapacity
    /\ \A i \in 1..Len(delayedSustainReleases) : delayedSustainReleases[i] = <<1, One>>
    /\ ~faulted

\* C15: when a note-on has been delivered to the controller memory and is then
\* delivered to the layer, with the other prerequisites satisfied, a layer in
\* trigger mode first qualifies exactly when the active-note count is 1, a
\* layer in trigger mode legato exactly when the count is greater than 1, and a
\* layer in trigger mode attack always; a qualifying call advances the sequence
\* and returns the combined gate state.
C15_LegatoGroups ==
    [][ ( /\ last.op = "noteOnEvent"
          /\ last'.op = "registerNoteOn"
          /\ last'.arg = last.arg )
        => \A v \in Norm, r \in RandInputs :
               LET used == IF region.velocityOverride = "previous"
                           THEN velocityOverride ELSE v
                   satisfied ==
                       /\ region.triggerOnNote
                       /\ region.keyRange.lo <= last'.arg
                       /\ last'.arg <= region.keyRange.hi
                       /\ region.velocityRange.lo <= used
                       /\ used <= region.velocityRange.hi
                       /\ CheckRandom(r)
                       /\ region.polyAftertouchRange.lo <= polyAftertouch[last'.arg]
                       /\ polyAftertouch[last'.arg] <= region.polyAftertouchRange.hi
                   qualified == walkCalls' = walkCalls + 1
               IN (satisfied /\ RegisterNoteOn(last'.arg, v, r))
                  => /\ region.trigger = "first" => (qualified <=> activeNotes = 1)
                     /\ region.trigger = "legato" => (qualified <=> activeNotes > 1)
                     /\ region.trigger = "attack" => qualified
                     /\ qualified => QualifiedNow
                     /\ ~qualified => (last'.ret = FALSE /\ UNCHANGED layerVars)
      ]_vars

C15_Witness ==
    /\ region.trigger = "first"
    /\ last = Called("registerNoteOn", 1, FALSE)
    /\ notePressed[0]
    /\ notePressed[1]
    /\ activeNotes = 2
    /\ walkCalls = 1
    /\ sequenceCounter = 1

\* C16: a registerNoteOn or registerNoteOff that fails a prerequisite (layer not
\* note-eligible; note, velocity, random draw or poly aftertouch out of range)
\* or whose event does not match the trigger mode returns false and leaves the
\* sequence counter, every gate, the pedal flags and both queues as they were;
\* a qualifying event advances the counter by one whatever the call returns.
C16_AdvanceOnlyOnQualification ==
    [][ last'.op \in {"registerNoteOn", "registerNoteOff"}
        => \A v \in Norm, r \in RandInputs :
               LET n == last'.arg
                   isOn == last'.op = "registerNoteOn"
                   used == IF region.velocityOverride = "previous"
                           THEN velocityOverride ELSE v
                   randomOk ==
                       \/ (region.randRange.lo <= r /\ r < region.randRange.hi)
                       \/ (r >= One /\ region.randRange.lo <= region.randRange.hi
                                    /\ region.randRange.hi >= One)
                   fails ==
                       \/ ~region.triggerOnNote
                       \/ n < region.keyRange.lo
                       \/ n > region.keyRange.hi
                       \/ used < region.velocityRange.lo
                       \/ used > region.velocityRange.hi
                       \/ ~randomOk
                       \/ polyAftertouch[n] < region.polyAftertouchRange.lo
                       \/ polyAftertouch[n] > region.polyAftertouchRange.hi
                   mismatch ==
                       IF isOn THEN region.trigger \in {"release", "release_key"}
                       ELSE region.trigger \in {"attack", "first", "legato"}
                   qualifies ==
                       /\ ~fails
                       /\ IF isOn THEN NoteOnTrigger ELSE ReleaseTriggerOk(n)
                   call == IF isOn THEN RegisterNoteOn(n, v, r)
                           ELSE RegisterNoteOff(n, v, r)
                   untouched == last'.ret = FALSE /\ UNCHANGED layerVars
                   advanced == /\ sequenceCounter' = sequenceCounter + 1
                               /\ UNCHANGED <<otherGates, pedalVars>>
               IN /\ untouched \/ ~((fails \/ mismatch) /\ call)
                  /\ advanced \/ ~(qualifies /\ call)
      ]_vars

\* a note-on qualified and advanced the sequence, and the call returned false
\* because the pitch gate is not satisfied
C16_Witness ==
    /\ region.keyRange = Range(0, 0)
    /\ last = Called("registerNoteOn", 0, FALSE)
    /\ sequenceCounter = 2
    /\ ~pitchSwitched
    /\ ~aftertouchSwitched

\* C17: among the L layers of a round-robin group (same key, same length L,
\* positions 1..L, same events since construction), after the n-th qualifying
\* event exactly one layer has its sequence gate true, the layer whose
\* position is ((n-1) mod L) + 1; the layers have all walked n times, and the
\* layer followed on its own is the member of the group at its position.
C17_OneLayerPerEvent ==
    LET len == region.sequenceLength
        switched == {p \in 1..len : group[p].sequenceSwitched}
    IN /\ DOMAIN group = 1..len
       /\ \A p \in 1..len : group[p].sequenceCounter = walkCalls
       /\ region.sequencePosition \in 1..len =>
              group[region.sequencePosition] =
                  [sequenceCounter |-> sequenceCounter,
                   sequenceSwitched |-> sequenceSwitched]
       /\ walkCalls >= 1 =>
              /\ Cardinality(switched) = 1
              /\ switched = {((walkCalls - 1) % len) + 1}

C17_Witness ==
    /\ region.sequenceLength = 3
    /\ walkCalls = 5
    /\ ~group[1].sequenceSwitched
    /\ group[2].sequenceSwitched
    /\ ~group[3].sequenceSwitched
    /\ last.op = "registerNoteOff"

\* C18: a registerCC on a controller of the table first sets the sustain flag,
\* the sostenuto flag and the gate of that controller from the value received;
\* a layer that controllers cannot trigger then returns false without
\* advancing the sequence, and a layer they can trigger returns a gate state
\* that includes the gate just recomputed, so it never returns true on a value
\* outside the acceptance range of its controller.
C18_UpdatesBeforeEligibility ==
    [][ (last'.op = "registerCC" /\ last'.arg \in CCs)
        => \A v \in Norm :
               LET n == last'.arg
                   accepted ==
                       n \in DOMAIN region.ccConditions =>
                           /\ region.ccConditions[n].lo <= v
                           /\ v <= region.ccConditions[n].hi
               IN RegisterCC(n, v)
                  => /\ n = region.sustainCC =>
                            sustainPressed' =
                                (region.checkSustain /\ v >= region.sustainThreshold)
                     /\ n = region.sostenutoCC =>
                            sostenutoPressed' =
                                (region.checkSostenuto /\ v >= region.sostenutoThreshold)
                     /\ ccSwitched'[n] = accepted
                     /\ ~region.triggerOnCC =>
                            /\ last'.ret = FALSE
                            /\ sequenceCounter' = sequenceCounter
                            /\ sequenceSwitched' = sequenceSwitched
                     /\ last'.ret => accepted
                     /\ sequenceCounter' # sequenceCounter => QualifiedNow
      ]_vars

\* a controller value triggered the layer and closed the gate of its own
\* controller: the sequence advanced and the call returned false
C18_Witness ==
    /\ region.triggerOnCC
    /\ ~region.triggerOnNote
    /\ last = Called("registerCC", 0, FALSE)
    /\ walkCalls = 1
    /\ sequenceSwitched
    /\ ~ccSwitched[0]
    /\ sustainPressed
    /\ pitchSwitched /\ bpmSwitched /\ aftertouchSwitched

\* C19: whenever the sostenuto flag is false the sostenuto queue is empty; so
\* storeSostenutoNotes always starts from an empty queue, and no note-off
\* finds its note in the sostenuto queue while the pedal is not pressed.
C19_SostenutoQueueEmptyWhenReleased ==
    ~sostenutoPressed =>
        /\ delayedSostenutoReleases = << >>
        /\ \A n \in Notes : ~IsNoteSostenutoed(n)

\* the pedal has been released over a held note it had captured
C19_Witness ==
    /\ region.trigger = "release"
    /\ last = Called("registerCC", SostenutoCC, FALSE)
    /\ ~sostenutoPressed
    /\ sustainPressed
    /\ notePressed[1]
    /\ delayedSostenutoReleases = << >>
    /\ delayedSustainReleases = << <<0, One>> >>

\* C20: one registerNoteOff adds at most one entry to the sustain queue and
\* none to the sostenuto queue; when it adds an entry it returns false and
\* does not advance the sequence, and when it advances the sequence it leaves
\* both queues as they were.
C20_DeferOrFire ==
    [][ last'.op = "registerNoteOff" =>
            /\ Len(delayedSustainReleases') <= Len(delayedSustainReleases) + 1
            /\ Extends(delayedSustainReleases', delayedSustainReleases)
            /\ Len(delayedSostenutoReleases') <= Len(delayedSostenutoReleases)
            /\ Len(delayedSustainReleases') > Len(delayedSustainReleases) =>
                   /\ last'.ret = FALSE
                   /\ sequenceCounter' = sequenceCounter
                   /\ walkCalls' = walkCalls
            /\ sequenceCounter' # sequenceCounter =>
                   /\ delayedSustainReleases' = delayedSustainReleases
                   /\ delayedSostenutoReleases' = delayedSostenutoReleases
      ]_vars

\* a release was deferred, and the next release of another note fired
C20_Witness ==
    /\ region.trigger = "release"
    /\ region.keyRange.lo = 0
    /\ last = Called("registerNoteOff", 1, TRUE)
    /\ walkCalls = 1
    /\ ~sustainPressed
    /\ delayedSustainReleases = << <<0, One>> >>

====
